---- MODULE Spec2Model ----
(***************************************************************************)
(* The provisioning lifecycle of ci-chat-bot: jobManager.launchJob and the *)
(* helpers it calls (findTargetName, prow.JobForConfig,                    *)
(* waitForClusterReachable, containerSuccessful, the reFixLines rewrite).  *)
(* One run of launchJob is a sequence of steps, one per platform call or   *)
(* poll; the answers of the orchestration platform are the inputs.         *)
(***************************************************************************)
EXTENDS Naturals, Sequences, FiniteSets, TLC

(* ---------------------------------------------------------------- bounds *)

\* Polls one stage may make before its timeout is certain to have elapsed
\* (stands for timeout / interval of each wait.PollImmediate call).
MaxPolls == 3

\* Invocations of launchJob on the request.
MaxInvocations == 2

(* ---------------------------------------------------------------- values *)

\* Runs of launchJob. Only r1 acts in Spec; r2 joins in SpecConcurrent.
Runs == {"r1", "r2"}
Sequential == {"r1"}

NoErr == <<>>

\* fmt.Errorf("<prefix>: %v", err)
Wrap(prefix, err) == <<prefix>> \o err

ErrWaitTimeout == <<"timed out waiting for the condition">>

\* Text of a kubeconfig: the blobs a remote read can give back.
KubeconfigTexts == {"", "kubeconfig-ok", "kubeconfig-malformed"}

\* A line of log text is either `level=info msg="<msg>"` (info) or <msg> as is.
\* A text is the sequence of its newline-terminated lines; "" is <<>>.
InfoLine(m) == [info |-> TRUE, msg |-> m]
PlainLine(m) == [info |-> FALSE, msg |-> m]

(* --------------------------------------------------- the job config side *)

\* A container argument "<flag><value>", e.g. "--target=" "test".
Arg(flag, value) == [flag |-> flag, value |-> value]
\* A corev1.EnvVar of a container.
EnvVar(name, value) == [Name |-> name, Value |-> value]
ContainerEnv(name, args, env) == [Name |-> name, Args |-> args, Env |-> env]
Container(name, args) == ContainerEnv(name, args, <<>>)

\* *corev1.PodSpec: nil, or its containers.
NilPodSpec == [nil |-> TRUE, Containers |-> <<>>]
PodSpecOf(cs) == [nil |-> FALSE, Containers |-> cs]

PodSpecs ==
  { NilPodSpec,
    PodSpecOf(<<ContainerEnv("", <<Arg("--target=", "test")>>,
                             <<EnvVar("RELEASE_IMAGE_LATEST", ""),
                               EnvVar("NAMESPACE", "")>>)>>),
    PodSpecOf(<<ContainerEnv("sidecar", <<Arg("--target=", "artifacts")>>,
                             <<EnvVar("HOME", "/tmp"),
                               EnvVar("NAMESPACE", "template-ns")>>),
                ContainerEnv("", <<Arg("--artifact-dir=", "/tmp"),
                                   Arg("--target=", ""),
                                   Arg("--target=", "e2e")>>,
                             <<EnvVar("RELEASE_IMAGE_LATEST", "template-latest"),
                               EnvVar("RELEASE_IMAGE_INITIAL", "template-initial"),
                               EnvVar("JOB_NAME_SAFE", "e2e"),
                               EnvVar("RELEASE_IMAGE_LATEST", "template-again")>>)>>),
    PodSpecOf(<<Container("", <<Arg("--target=", "")>>)>>),
    PodSpecOf(<<Container("named", <<Arg("--target=", "test")>>)>>) }

JobNames == {"launch-aws"}

\* What m.prowConfigLoader.Config() holds: nil, or the periodic jobs by name.
NilConfig == [nil |-> TRUE, periodics |-> {}]
Configs ==
  {NilConfig}
  \cup {[nil |-> FALSE, periodics |-> {}]}
  \cup {[nil |-> FALSE, periodics |-> {[Name |-> n, PodSpec |-> ps]}] :
          n \in JobNames, ps \in PodSpecs}

\* prowapiv1.HasProwJob: the periodic of that name, if any.
HasProwJob(config, jobName) ==
  LET found == {p \in config.periodics : p.Name = jobName}
  IN  IF found = {} THEN [ok |-> FALSE, PodSpec |-> NilPodSpec]
      ELSE [ok |-> TRUE, PodSpec |-> (CHOOSE p \in found : TRUE).PodSpec]

\* prow.JobForConfig: the ProwJob built from the named periodic, or an error.
JobForConfig(config, jobName) ==
  IF config.nil
  THEN [err |-> <<"the prow job is not valid: no prow jobs have been defined">>,
        PodSpec |-> NilPodSpec]
  ELSE LET found == HasProwJob(config, jobName)
       IN  IF ~found.ok
           THEN [err |-> <<"the prow job is not valid: no job with that name">>,
                 PodSpec |-> NilPodSpec]
           ELSE [err |-> NoErr, PodSpec |-> found.PodSpec]

\* The inner loop of findTargetName over one container's arguments, from j on.
RECURSIVE TargetInArgs(_, _)
TargetInArgs(args, j) ==
  IF j > Len(args) THEN ""
  ELSE IF args[j].flag = "--target=" /\ args[j].value # ""
       THEN args[j].value
       ELSE TargetInArgs(args, j + 1)

\* The outer loop of findTargetName over the containers, from i on.
RECURSIVE TargetInContainers(_, _)
TargetInContainers(cs, i) ==
  IF i > Len(cs) THEN ""
  ELSE IF cs[i].Name # "" THEN TargetInContainers(cs, i + 1)
       ELSE LET name == TargetInArgs(cs[i].Args, 1)
            IN  IF name # "" THEN name ELSE TargetInContainers(cs, i + 1)

\* findTargetName falling back to a default name.
findTargetName_Default(spec) ==
  IF spec.nil
  THEN [name |-> "",
        err |-> <<"prow job has no pod spec, cannot find target pod name">>]
  ELSE LET name == TargetInContainers(spec.Containers, 1)
       IN  [name |-> IF name # "" THEN name ELSE "test", err |-> NoErr]

findTargetName(spec) ==
  IF spec.nil
  THEN [name |-> "",
        err |-> <<"prow job has no pod spec, cannot find target pod name">>]
  ELSE LET name == TargetInContainers(spec.Containers, 1)
       IN  IF name # ""
           THEN [name |-> name, err |-> NoErr]
           ELSE [name |-> "",
                 err |-> <<"could not find argument --target=X in prow job pod spec to identify target pod name">>]

(* ------------------------------------------------- the identifier hasher *)

\* base32.NewEncoding("bcdfghijklmnpqrstvwxyz0123456789"): symbol by value.
oneWayNameAlphabet ==
  << "b", "c", "d", "f", "g", "h", "i", "j", "k", "l", "m", "n", "p", "q", "r",
     "s", "t", "v", "w", "x", "y", "z", "0", "1", "2", "3", "4", "5", "6", "7",
     "8", "9" >>

NoPadding == ""
StdPadding == "="

\* Bit k (from 1, most significant first) of a byte string; 0 past its end.
BitAt(src, k) ==
  IF k > 8 * Len(src) THEN 0
  ELSE (src[((k - 1) \div 8) + 1] \div (2 ^ (7 - ((k - 1) % 8)))) % 2

\* The value of the q-th group of five bits of a byte string.
Quantum(src, q) ==
  16 * BitAt(src, 5 * q - 4) + 8 * BitAt(src, 5 * q - 3)
  + 4 * BitAt(src, 5 * q - 2) + 2 * BitAt(src, 5 * q - 1) + BitAt(src, 5 * q)

\* (*base32.Encoding).EncodeToString: the symbols of the encoding of src,
\* filled up to whole groups of eight with padChar unless it is NoPadding.
EncodeToString(src, padChar) ==
  LET symbols == (Len(src) * 8 + 4) \div 5
      total == IF padChar = NoPadding THEN symbols
               ELSE ((Len(src) + 4) \div 5) * 8
  IN  [q \in 1..total |->
         IF q <= symbols THEN oneWayNameAlphabet[Quantum(src, q) + 1]
         ELSE padChar]

\* The bytes written to the hash: the values one after the other.
RECURSIVE Written(_)
Written(values) ==
  IF values = <<>> THEN "" ELSE Head(values) \o Written(Tail(values))

\* sha256 of the written bytes: the leading bytes of the digest.
sha256Sum(input) ==
  CASE input = "launch-abc123" -> <<102, 141, 65, 119, 19, 128>>
    [] input = "launch-xyz789" -> <<245, 1, 68, 247, 3, 183>>
    [] input = "ci-test-1" -> <<75, 180, 36, 235, 218, 239>>
    [] input = "" -> <<227, 176, 196, 66, 152, 252>>

\* The hasher encoding with the standard padding character.
namespaceSafeHash_Padded(values) ==
  EncodeToString(SubSeq(sha256Sum(Written(values)), 1, 4), StdPadding)

\* namespaceSafeHash(values...): the symbols of the encoded truncated digest.
namespaceSafeHash(values) ==
  EncodeToString(SubSeq(sha256Sum(Written(values)), 1, 4), NoPadding)

\* The string of a sequence of symbols.
RECURSIVE Text(_)
Text(symbols) ==
  IF symbols = <<>> THEN "" ELSE Head(symbols) \o Text(Tail(symbols))

\* fmt.Sprintf("ci-ln-%s", namespaceSafeHash(job.Name))
Namespace(name) == "ci-ln-" \o Text(namespaceSafeHash(<<name>>))

\* prow.OverrideJobEnvironment on one environment variable.
OverrideEnvVar(e, image, initialImage, namespace) ==
  IF e.Name = "RELEASE_IMAGE_LATEST" THEN [e EXCEPT !.Value = image]
  ELSE IF e.Name = "RELEASE_IMAGE_INITIAL" THEN [e EXCEPT !.Value = initialImage]
  ELSE IF e.Name = "NAMESPACE" THEN [e EXCEPT !.Value = namespace]
  ELSE e

\* prow.OverrideJobEnvironment on one container.
OverrideContainer(c, image, initialImage, namespace) ==
  [c EXCEPT !.Env = [j \in 1..Len(c.Env) |->
                       OverrideEnvVar(c.Env[j], image, initialImage, namespace)]]

\* The rewriting applied to the first container only.
OverrideJobEnvironment_FirstContainer(spec, image, initialImage, namespace) ==
  [spec EXCEPT !.Containers =
     [i \in 1..Len(spec.Containers) |->
        IF i = 1
        THEN OverrideContainer(spec.Containers[i], image, initialImage, namespace)
        ELSE spec.Containers[i]]]

\* prow.OverrideJobEnvironment: every container of the pod spec, in place.
OverrideJobEnvironment(spec, image, initialImage, namespace) ==
  [spec EXCEPT !.Containers =
     [i \in 1..Len(spec.Containers) |->
        OverrideContainer(spec.Containers[i], image, initialImage, namespace)]]

(* ------------------------------------------------------ the platform side *)

\* Answers of Create on the job resource.
CreateAnswers == {"Created", "AlreadyExists", "Other"}

\* Answers of Get on the job resource followed by UnstructuredToObject:
\* an error of the fetch, an error of the conversion, or the status URL.
ProwJobAnswers ==
  { [err |-> <<"get prowjob failed">>, URL |-> ""],
    [err |-> <<"cannot convert prowjob">>, URL |-> ""],
    [err |-> NoErr, URL |-> ""],
    [err |-> NoErr, URL |-> "https://prow/view/1"] }

\* Container statuses of a pod.
Status(name, terminated, exitCode) ==
  [Name |-> name, Terminated |-> terminated, ExitCode |-> exitCode]
StatusLists ==
  { <<>>,
    <<Status("setup", FALSE, 0)>>,
    <<Status("setup", TRUE, 0)>>,
    <<Status("setup", TRUE, 1)>>,
    <<Status("test", TRUE, 0)>>,
    <<Status("test", FALSE, 0), Status("setup", TRUE, 0)>> }

Phases == {"Pending", "Running", "Succeeded", "Failed"}

\* Answers of Get on a pod: the pod, or an error kind (the pod handed back
\* with an error is nil or an empty object).
PodAnswers ==
  {[err |-> "", nil |-> FALSE, Phase |-> ph, ContainerStatuses |-> st] :
      ph \in Phases, st \in StatusLists}
  \cup {[err |-> e, nil |-> n, Phase |-> "", ContainerStatuses |-> <<>>] :
      e \in {"NotFound", "Forbidden", "Other"}, n \in BOOLEAN}

IsNotFound(a) == a.err = "NotFound"
IsForbidden(a) == a.err = "Forbidden"
PodErr(a) == <<"pods", a.err>>

\* Answers of the remote `cat /tmp/admin.kubeconfig`.
ExecAnswers ==
  {[err |-> NoErr, contents |-> c] : c \in KubeconfigTexts}
  \cup {[err |-> e, contents |-> ""] :
          e \in {<<"container not found (\"test\")">>, <<"unable to upgrade connection">>}}

\* strings.Contains(err.Error(), "container not found")
ContainerNotFound(err) == err = <<"container not found (\"test\")">>

\* Answers of GetLogs(...).DoRaw(): the last two lines of the setup log, or
\* an error together with whatever body came with it.
LogAnswers ==
  {[err |-> NoErr, body |-> b] :
      b \in { <<>>,
              <<InfoLine("Login to the console with user: kubeadmin")>>,
              <<PlainLine("Install complete!"),
                InfoLine("Login to the console with user: kubeadmin")>> }}
  \cup {[err |-> <<"unable to get logs">>, body |-> b] :
      b \in { <<>>, <<PlainLine("container setup is not available")>> }}

(* ------------------------------------------------------- pure functions *)

\* containerSuccessful(pod, containerName): the first status of that name
\* decides; from i on.
RECURSIVE containerSuccessfulFrom(_, _, _)
containerSuccessfulFrom(statuses, containerName, i) ==
  IF i > Len(statuses) THEN FALSE
  ELSE IF statuses[i].Name # containerName
       THEN containerSuccessfulFrom(statuses, containerName, i + 1)
       ELSE IF ~statuses[i].Terminated THEN FALSE
            ELSE statuses[i].ExitCode = 0

\* The exit code of the terminated container left unread.
containerSuccessful_AnyExit(pod, containerName) ==
  \E i \in DOMAIN pod.ContainerStatuses :
    /\ pod.ContainerStatuses[i].Name = containerName
    /\ pod.ContainerStatuses[i].Terminated

containerSuccessful(pod, containerName) ==
  containerSuccessfulFrom(pod.ContainerStatuses, containerName, 1)

\* Only a failed pod taken as exited.
TerminalPhase_FailedOnly(pod) == pod.Phase = "Failed"

TerminalPhase(pod) == pod.Phase = "Succeeded" \/ pod.Phase = "Failed"

\* reFixLines.ReplaceAllString(text, "$1"): every info line becomes its
\* quoted message, every other line stays.
RECURSIVE reFixLines(_)
reFixLines(text) ==
  IF text = <<>> THEN <<>>
  ELSE <<IF Head(text).info THEN PlainLine(Head(text).msg) ELSE Head(text)>>
       \o reFixLines(Tail(text))

\* loadKubeconfigContents: whether the blob parses into a client config.
loadKubeconfigContents(contents) == contents \in {"kubeconfig-ok", "kubeconfig-old"}

\* The guard with the wrong output tested.
AlreadyFulfilled_WrongField(j) == j.Credentials # "" /\ j.URL # ""

\* The guard of launchJob: both outputs are already set.
AlreadyFulfilled(j) == j.Credentials # "" /\ j.PasswordSnippet # <<>>

\* A poll that never times out.
PollImmediate_NoTimeout(done, err, n, expired) ==
  IF err # NoErr THEN [next |-> "error", err |-> err]
  ELSE IF done THEN [next |-> "done", err |-> NoErr]
  ELSE [next |-> "again", err |-> NoErr]

\* wait.PollImmediate, one round: what the poll does after the condition
\* answered (done, err) on its n-th call; expired says the timeout elapsed
\* meanwhile, as it has for certain after MaxPolls calls.
PollImmediate(done, err, n, expired) ==
  IF err # NoErr THEN [next |-> "error", err |-> err]
  ELSE IF done THEN [next |-> "done", err |-> NoErr]
  ELSE IF expired \/ n >= MaxPolls THEN [next |-> "error", err |-> ErrWaitTimeout]
  ELSE [next |-> "again", err |-> NoErr]

(* ----------------------------------------------------------------- state *)

VARIABLES
  job,          \* the request (*Job): inputs and the three outputs
  config,       \* what the job config provider holds
  pjExists,     \* the platform: the job resource of this request exists
  pjChannel,    \* the platform: its ci-chat-bot.openshift.io/channel annotation
  run,          \* per run of launchJob: its position and locals
  invocations   \* launchJob calls made so far

vars == <<job, config, pjExists, pjChannel, run, invocations>>

NoPod == [err |-> "", nil |-> TRUE, Phase |-> "", ContainerStatuses |-> <<>>]
NoExec == [err |-> NoErr, contents |-> ""]
NoLogs == [err |-> NoErr, body |-> <<>>]

\* The locals of a run that has not started.
Idle(j) ==
  [ pc |-> "idle",
    entry |-> j,              \* the request as it was at entry
    pj |-> NilPodSpec,        \* pj.Spec.PodSpec
    namespace |-> "",
    targetPodName |-> "",
    polls |-> 0,              \* calls of the condition in the current stage
    seen |-> FALSE,
    lastErr |-> NoErr,
    kubeconfig |-> "",
    reachErr |-> <<"not probed">>,  \* what waitForClusterReachable returned
    waitErr |-> NoErr,
    ret |-> NoErr,            \* the error returned
    calls |-> {},             \* platform calls made
    createAns |-> "",         \* last answers received
    obs |-> NoPod,
    exec |-> NoExec,
    logs |-> NoLogs ]

Jobs ==
  [ Name : {"launch-abc123"},
    JobName : JobNames,
    Mode : {"launch", "build"},
    RequestedChannel : {"C123"},
    URL : {""},
    InstallImage : {"registry/img:latest"},
    UpgradeImage : {""},
    Credentials : {"", "kubeconfig-old"},
    PasswordSnippet : {<<>>, <<PlainLine("old hint")>>} ]

Init ==
  /\ job \in Jobs
  /\ config \in Configs
  /\ pjExists \in BOOLEAN
  /\ pjChannel = (IF pjExists THEN job.RequestedChannel ELSE "")
  /\ run = [r \in Runs |-> Idle(job)]
  /\ invocations = 0

(* --------------------------------------------------------------- actions *)

Set(r, rec) == run' = [run EXCEPT ![r] = rec]

\* `return err` of launchJob.
Return(rec, err) == [rec EXCEPT !.pc = "returned", !.ret = err]

\* A caller invokes launchJob(job).
Invoke(r) ==
  /\ run[r].pc \in {"idle", "returned"}
  /\ invocations < MaxInvocations
  /\ invocations' = invocations + 1
  /\ Set(r, [Idle(job) EXCEPT !.pc = "guard"])
  /\ UNCHANGED <<job, config, pjExists, pjChannel>>

\* if len(job.Credentials) > 0 && len(job.PasswordSnippet) > 0 { return nil }
Guard(r) ==
  /\ run[r].pc = "guard"
  /\ IF AlreadyFulfilled(job)
     THEN Set(r, Return(run[r], NoErr))
     ELSE Set(r, [run[r] EXCEPT !.pc = "resolve",
                                !.namespace = Namespace(job.Name)])
  /\ UNCHANGED <<job, config, pjExists, pjChannel, invocations>>

\* pj, err := prow.JobForConfig(m.prowConfigLoader, job.JobName)
Resolve(r) ==
  /\ run[r].pc = "resolve"
  /\ LET res == JobForConfig(config, job.JobName)
     IN  IF res.err # NoErr
         THEN Set(r, Return(run[r], res.err))
         ELSE Set(r, [run[r] EXCEPT !.pc = "target", !.pj = res.PodSpec])
  /\ UNCHANGED <<job, config, pjExists, pjChannel, invocations>>

\* targetPodName, err := findTargetName(pj.Spec.PodSpec)
FindTarget(r) ==
  /\ run[r].pc = "target"
  /\ LET res == findTargetName(run[r].pj)
     IN  IF res.err # NoErr
         THEN Set(r, Return(run[r], res.err))
         ELSE Set(r, [run[r] EXCEPT !.pc = "submit", !.targetPodName = res.name])
  /\ UNCHANGED <<job, config, pjExists, pjChannel, invocations>>

\* The create answer read without the AlreadyExists tolerance.
SubmitFatal_NoTolerance(ans) == ans # "Created"

\* What the create answer means to launchJob: go on, or return the error.
SubmitFatal(ans) == ans # "Created" /\ ans # "AlreadyExists"

\* The job resource is stamped and created; AlreadyExists is tolerated.
Submit(r) ==
  /\ run[r].pc = "submit"
  /\ \E ans \in CreateAnswers :
       /\ ans = "Created" => ~pjExists
       /\ ans = "AlreadyExists" => pjExists
       /\ pjExists' = (pjExists \/ ans = "Created")
       /\ pjChannel' = (IF ans = "Created" THEN job.RequestedChannel ELSE pjChannel)
       /\ LET image == IF job.UpgradeImage # "" THEN job.UpgradeImage
                       ELSE job.InstallImage
              initialImage == IF job.UpgradeImage # "" THEN job.InstallImage
                              ELSE ""
              rec == [run[r] EXCEPT
                        !.pj = OverrideJobEnvironment(@, image, initialImage,
                                                      run[r].namespace),
                        !.calls = @ \cup {"Create"}, !.createAns = ans]
          IN  IF SubmitFatal(ans)
              THEN Set(r, Return(rec, <<"create failed">>))
              ELSE Set(r, [rec EXCEPT !.pc = "url", !.polls = 0])
  /\ UNCHANGED <<job, config, invocations>>

\* The condition of the await-URL poll, on one answer of the job resource.
URLCondition(ans) ==
  IF ans.err # NoErr THEN [done |-> FALSE, err |-> ans.err]
  ELSE IF ans.URL # "" THEN [done |-> TRUE, err |-> NoErr]
  ELSE [done |-> FALSE, err |-> NoErr]

\* The URL written to the credentials field.
RecordURL_AsCredentials(j, url) == [j EXCEPT !.Credentials = url]

\* job.URL = pj.Status.URL
RecordURL(j, url) == [j EXCEPT !.URL = url]

\* One round of the await-URL poll (10s, 15min).
PollURL(r) ==
  /\ run[r].pc = "url"
  /\ \E ans \in ProwJobAnswers, expired \in BOOLEAN :
       LET c == URLCondition(ans)
           n == run[r].polls + 1
           p == PollImmediate(c.done, c.err, n, expired)
           rec == [run[r] EXCEPT !.polls = n, !.calls = @ \cup {"GetProwJob"}]
       IN  /\ job' = (IF c.done THEN RecordURL(job, ans.URL) ELSE job)
           /\ CASE p.next = "again" -> Set(r, rec)
                [] p.next = "done" -> Set(r, [rec EXCEPT !.pc = "mode", !.polls = 0])
                [] OTHER ->
                     Set(r, Return(rec,
                            Wrap("did not retrieve job url due to an error", p.err)))
  /\ UNCHANGED <<config, pjExists, pjChannel, invocations>>

\* The mode test never ending the run.
ModeReturns_Never(mode) == FALSE

\* Whether a run on a request of this mode ends once the URL is recorded.
ModeReturns(mode) == mode # "launch"

\* if job.Mode != "launch" { return nil }
ModeCheck(r) ==
  /\ run[r].pc = "mode"
  /\ IF ModeReturns(job.Mode)
     THEN Set(r, Return(run[r], NoErr))
     ELSE Set(r, [run[r] EXCEPT !.pc = "visible", !.seen = FALSE])
  /\ UNCHANGED <<job, config, pjExists, pjChannel, invocations>>

\* The visibility condition not done on a pod that is there.
VisibleCondition_KeepsPolling(seen, pod) ==
  IF pod.err # ""
  THEN IF ~IsNotFound(pod) THEN [done |-> FALSE, err |-> PodErr(pod), seen |-> seen]
       ELSE IF seen THEN [done |-> FALSE, err |-> <<"pod was deleted">>, seen |-> seen]
       ELSE [done |-> FALSE, err |-> NoErr, seen |-> seen]
  ELSE IF TerminalPhase(pod)
       THEN [done |-> FALSE, err |-> <<"pod has already exited">>, seen |-> TRUE]
       ELSE [done |-> FALSE, err |-> NoErr, seen |-> TRUE]

\* The condition of the await-workload-visibility poll, on one answer for
\* the job's own pod.
VisibleCondition(seen, pod) ==
  IF pod.err # ""
  THEN IF ~IsNotFound(pod) THEN [done |-> FALSE, err |-> PodErr(pod), seen |-> seen]
       ELSE IF seen THEN [done |-> FALSE, err |-> <<"pod was deleted">>, seen |-> seen]
       ELSE [done |-> FALSE, err |-> NoErr, seen |-> seen]
  ELSE IF TerminalPhase(pod)
       THEN [done |-> FALSE, err |-> <<"pod has already exited">>, seen |-> TRUE]
       ELSE [done |-> TRUE, err |-> NoErr, seen |-> TRUE]

\* One round of the await-workload-visibility poll (5s, 15min).
PollVisible(r) ==
  /\ run[r].pc = "visible"
  /\ \E pod \in PodAnswers, expired \in BOOLEAN :
       LET c == VisibleCondition(run[r].seen, pod)
           n == run[r].polls + 1
           p == PollImmediate(c.done, c.err, n, expired)
           rec == [run[r] EXCEPT !.polls = n, !.calls = @ \cup {"GetJobPod"},
                                 !.obs = pod, !.seen = c.seen]
       IN  CASE p.next = "again" -> Set(r, rec)
             [] p.next = "done" ->
                  Set(r, [rec EXCEPT !.pc = "setup", !.polls = 0,
                                     !.seen = FALSE, !.lastErr = NoErr])
             [] OTHER ->
                  Set(r, Return(rec, Wrap("unable to check launch status", p.err)))
  /\ UNCHANGED <<job, config, pjExists, pjChannel, invocations>>

\* Forbidden not tolerated.
SetupFetchFatal_ForbiddenFatal(pod) == ~IsNotFound(pod)

\* Whether a failed fetch of the target pod is fatal to the setup stage.
SetupFetchFatal(pod) == ~IsNotFound(pod) /\ ~IsForbidden(pod)

\* The setup condition without the check of seen.
SetupCondition_NoSeenCheck(seen, lastErr, pod) ==
  IF pod.err # ""
  THEN IF SetupFetchFatal(pod)
       THEN [done |-> FALSE, err |-> PodErr(pod), seen |-> seen, lastErr |-> PodErr(pod)]
       ELSE [done |-> FALSE, err |-> NoErr, seen |-> seen, lastErr |-> lastErr]
  ELSE IF TerminalPhase(pod)
       THEN [done |-> FALSE, err |-> <<"pod has already exited">>, seen |-> TRUE,
             lastErr |-> lastErr]
       ELSE [done |-> containerSuccessful(pod, "setup"), err |-> NoErr, seen |-> TRUE,
             lastErr |-> lastErr]

\* The condition of the await-setup-completion poll, on one answer for the
\* target pod.
SetupCondition(seen, lastErr, pod) ==
  IF pod.err # ""
  THEN IF SetupFetchFatal(pod)
       THEN [done |-> FALSE, err |-> PodErr(pod), seen |-> seen, lastErr |-> PodErr(pod)]
       ELSE IF seen
            THEN [done |-> FALSE, err |-> <<"pod was deleted">>, seen |-> seen,
                  lastErr |-> lastErr]
            ELSE [done |-> FALSE, err |-> NoErr, seen |-> seen, lastErr |-> lastErr]
  ELSE IF TerminalPhase(pod)
       THEN [done |-> FALSE, err |-> <<"pod has already exited">>, seen |-> TRUE,
             lastErr |-> lastErr]
       ELSE [done |-> containerSuccessful(pod, "setup"), err |-> NoErr, seen |-> TRUE,
             lastErr |-> lastErr]

\* The error the setup stage reports: the last recorded error in place of a
\* bare timeout.
SetupError(lastErr, err) ==
  IF lastErr # NoErr /\ err = ErrWaitTimeout THEN lastErr ELSE err

\* One round of the await-setup-completion poll (5s, 45min).
PollSetup(r) ==
  /\ run[r].pc = "setup"
  /\ \E pod \in PodAnswers, expired \in BOOLEAN :
       LET c == SetupCondition(run[r].seen, run[r].lastErr, pod)
           n == run[r].polls + 1
           p == PollImmediate(c.done, c.err, n, expired)
           rec == [run[r] EXCEPT !.polls = n, !.calls = @ \cup {"GetTargetPod"},
                                 !.obs = pod, !.seen = c.seen, !.lastErr = c.lastErr]
       IN  CASE p.next = "again" -> Set(r, rec)
             [] p.next = "done" -> Set(r, [rec EXCEPT !.pc = "creds", !.polls = 0])
             [] OTHER ->
                  Set(r, Return(rec, Wrap("pod never became available",
                                          SetupError(c.lastErr, p.err))))
  /\ UNCHANGED <<job, config, pjExists, pjChannel, invocations>>

\* The credential condition with every exec failure but "container not
\* found" fatal.
CredsCondition_OtherFatal(exec, pod) ==
  IF exec.err # NoErr
  THEN IF ContainerNotFound(exec.err)
       THEN IF IsNotFound(pod) \/ (~pod.nil /\ TerminalPhase(pod))
            THEN [done |-> FALSE,
                  err |-> <<"pod cannot be found or has been deleted, assume cluster won't come up">>]
            ELSE [done |-> FALSE, err |-> NoErr]
       ELSE [done |-> FALSE, err |-> exec.err]
  ELSE [done |-> exec.contents # "", err |-> NoErr]

\* The condition of the credential poll, on the answer of the remote read
\* and, after "container not found", the answer for the target pod.
CredsCondition(exec, pod) ==
  IF exec.err # NoErr
  THEN IF ContainerNotFound(exec.err)
       THEN IF IsNotFound(pod) \/ (~pod.nil /\ TerminalPhase(pod))
            THEN [done |-> FALSE,
                  err |-> <<"pod cannot be found or has been deleted, assume cluster won't come up">>]
            ELSE [done |-> FALSE, err |-> NoErr]
       ELSE [done |-> FALSE, err |-> NoErr]
  ELSE [done |-> exec.contents # "", err |-> NoErr]

\* One round of the credential poll (30s, 10min).
PollCreds(r) ==
  /\ run[r].pc = "creds"
  /\ \E exec \in ExecAnswers, pod \in PodAnswers \cup {NoPod}, expired \in BOOLEAN :
       LET followUp == exec.err # NoErr /\ ContainerNotFound(exec.err)
           c == CredsCondition(exec, pod)
           n == run[r].polls + 1
           p == PollImmediate(c.done, c.err, n, expired)
           rec == [run[r] EXCEPT
                     !.polls = n,
                     !.calls = @ \cup {"Exec"} \cup (IF followUp THEN {"GetTargetPod"} ELSE {}),
                     !.exec = exec,
                     !.obs = IF followUp THEN pod ELSE @,
                     !.kubeconfig = IF exec.err = NoErr THEN exec.contents ELSE @]
       IN  /\ followUp <=> pod # NoPod
           /\ CASE p.next = "again" -> Set(r, rec)
                [] p.next = "done" -> Set(r, [rec EXCEPT !.pc = "store", !.polls = 0])
                [] OTHER ->
                     Set(r, Return(rec, Wrap("could not retrieve kubeconfig from pod", p.err)))
  /\ UNCHANGED <<job, config, pjExists, pjChannel, invocations>>

\* job.Credentials = kubeconfig
StoreCredentials(r) ==
  /\ run[r].pc = "store"
  /\ job' = [job EXCEPT !.Credentials = run[r].kubeconfig]
  /\ Set(r, [run[r] EXCEPT !.pc = "reach"])
  /\ UNCHANGED <<config, pjExists, pjChannel, invocations>>

\* What launchJob does when waitForClusterReachable returned err.
Unreachable(rec, err) ==
  [rec EXCEPT !.pc = "logs",
              !.polls = 0,
              !.reachErr = err,
              !.waitErr = Wrap("cluster did not become reachable", err)]

\* The credentials left in place.
Revoked_Kept(credentials) == credentials

\* The credentials the request keeps when the cluster is not reachable.
Revoked(credentials) == ""

\* waitForClusterReachable, up to its poll: the client is built from the
\* kubeconfig, or the function returns the error.
waitForClusterReachable(r) ==
  /\ run[r].pc = "reach"
  /\ \E clientOk \in BOOLEAN :
       IF ~loadKubeconfigContents(run[r].kubeconfig)
       THEN /\ clientOk
            /\ job' = [job EXCEPT !.Credentials = Revoked(@)]
            /\ Set(r, Unreachable(run[r], <<"could not load client configuration">>))
       ELSE IF ~clientOk
       THEN /\ job' = [job EXCEPT !.Credentials = Revoked(@)]
            /\ Set(r, Unreachable(run[r], <<"could not create client">>))
       ELSE /\ job' = job
            /\ Set(r, [run[r] EXCEPT !.pc = "probe", !.polls = 0])
  /\ UNCHANGED <<config, pjExists, pjChannel, invocations>>

\* The condition of the reachability poll: the openshift-apiserver
\* namespace was fetched from the new cluster.
ProbeCondition(answered) == [done |-> answered, err |-> NoErr]

\* One round of the reachability poll (15s, 20min).
PollProbe(r) ==
  /\ run[r].pc = "probe"
  /\ \E answered \in BOOLEAN, expired \in BOOLEAN :
       LET c == ProbeCondition(answered)
           n == run[r].polls + 1
           p == PollImmediate(c.done, c.err, n, expired)
           rec == [run[r] EXCEPT !.polls = n, !.calls = @ \cup {"ProbeCluster"}]
       IN  CASE p.next = "again" -> job' = job /\ Set(r, rec)
             [] p.next = "done" ->
                  job' = job /\ Set(r, [rec EXCEPT !.pc = "logs", !.polls = 0, !.reachErr = NoErr])
             [] OTHER ->
                  /\ job' = [job EXCEPT !.Credentials = Revoked(@)]
                  /\ Set(r, Unreachable(rec, p.err))
  /\ UNCHANGED <<config, pjExists, pjChannel, invocations>>

\* The snippet left empty.
Snippet_Dropped(ans) == <<>>

\* The snippet taken from the answer of the log fetch.
Snippet(ans) == reFixLines(ans.body)

\* The last two lines of the setup log become the snippet; an error is logged.
FetchLogs(r) ==
  /\ run[r].pc = "logs"
  /\ \E ans \in LogAnswers :
       /\ job' = [job EXCEPT !.PasswordSnippet = Snippet(ans)]
       /\ Set(r, [run[r] EXCEPT !.pc = "patch", !.logs = ans,
                                !.calls = @ \cup {"GetLogs"}])
  /\ UNCHANGED <<config, pjExists, pjChannel, invocations>>

\* The reachability error dropped from the result.
FinalResult_AlwaysNil(rec, patched) == NoErr

\* What launchJob returns after the notification patch.
FinalResult(rec, patched) == rec.waitErr

\* The channel annotation is patched to "", best effort; return waitErr.
ClearNotification(r) ==
  /\ run[r].pc = "patch"
  /\ \E patched \in BOOLEAN :
       /\ patched => pjExists
       /\ pjChannel' = (IF patched THEN "" ELSE pjChannel)
       /\ LET rec == [run[r] EXCEPT !.calls = @ \cup {"Patch"}]
          IN  Set(r, Return(rec, FinalResult(rec, patched)))
  /\ UNCHANGED <<job, config, pjExists, invocations>>

(* ---------------------------------------------------------- specification *)

launchJob(r) ==
  \/ Guard(r)
  \/ Resolve(r)
  \/ FindTarget(r)
  \/ Submit(r)
  \/ PollURL(r)
  \/ ModeCheck(r)
  \/ PollVisible(r)
  \/ PollSetup(r)
  \/ PollCreds(r)
  \/ StoreCredentials(r)
  \/ waitForClusterReachable(r)
  \/ PollProbe(r)
  \/ FetchLogs(r)
  \/ ClearNotification(r)

\* One run at a time: launchJob is invoked, runs to its return, and may be
\* invoked again.
Next == \E r \in Sequential : Invoke(r) \/ launchJob(r)

Spec == Init /\ [][Next]_vars

\* A run that can take a step takes it: the goroutine running launchJob is
\* scheduled, every platform call returns, and the clock of a poll advances.
SpecLive == Spec /\ WF_vars(\E r \in Sequential : launchJob(r))

\* The answers the platform gives while two runs are under way: a pod is
\* missing or running with its setup done, the remote read gives nothing or
\* the kubeconfig, the log is empty or holds the login line.
ConcurrentAnswers(r) ==
  /\ run[r].obs \in
       { NoPod,
         [err |-> "NotFound", nil |-> TRUE, Phase |-> "", ContainerStatuses |-> <<>>],
         [err |-> "", nil |-> FALSE, Phase |-> "Running",
          ContainerStatuses |-> <<Status("setup", TRUE, 0)>>] }
  /\ run[r].exec \in {NoExec, [err |-> NoErr, contents |-> "kubeconfig-ok"]}
  /\ run[r].logs \in
       { NoLogs,
         [err |-> NoErr,
          body |-> <<InfoLine("Login to the console with user: kubeadmin")>>] }

\* Two callers at once: both runs may be invoked and their steps interleave.
NextConcurrent ==
  \E r \in Runs :
    \/ Invoke(r) /\ ConcurrentAnswers(r)'
    \/ Guard(r) /\ ConcurrentAnswers(r)'
    \/ Resolve(r) /\ ConcurrentAnswers(r)'
    \/ FindTarget(r) /\ ConcurrentAnswers(r)'
    \/ Submit(r) /\ ConcurrentAnswers(r)'
    \/ PollURL(r) /\ ConcurrentAnswers(r)'
    \/ ModeCheck(r) /\ ConcurrentAnswers(r)'
    \/ PollVisible(r) /\ ConcurrentAnswers(r)'
    \/ PollSetup(r) /\ ConcurrentAnswers(r)'
    \/ PollCreds(r) /\ ConcurrentAnswers(r)'
    \/ StoreCredentials(r) /\ ConcurrentAnswers(r)'
    \/ waitForClusterReachable(r) /\ ConcurrentAnswers(r)'
    \/ PollProbe(r) /\ ConcurrentAnswers(r)'
    \/ FetchLogs(r) /\ ConcurrentAnswers(r)'
    \/ ClearNotification(r) /\ ConcurrentAnswers(r)'

\* The request two callers share: a fresh launch request on a configured job.
InitConcurrent ==
  /\ Init
  /\ job.Mode = "launch"
  /\ job.Credentials = "" /\ job.PasswordSnippet = <<>>
  /\ config = [nil |-> FALSE,
               periodics |-> {[Name |-> job.JobName,
                               PodSpec |-> PodSpecOf(<<ContainerEnv("",
                                   <<Arg("--target=", "test")>>,
                                   <<EnvVar("RELEASE_IMAGE_LATEST", ""),
                                     EnvVar("NAMESPACE", "")>>)>>)]}]
  /\ ~pjExists

SpecConcurrent == InitConcurrent /\ [][NextConcurrent]_vars

\* The submission half of launchJob on more requests: several names, with
\* and without an upgrade image.
JobsSubmission ==
  [ Name : {"launch-abc123", "launch-xyz789", "ci-test-1"},
    JobName : JobNames,
    Mode : {"launch"},
    RequestedChannel : {"C123"},
    URL : {""},
    InstallImage : {"registry/img:latest"},
    UpgradeImage : {"", "registry/img:next"},
    Credentials : {"", "kubeconfig-old"},
    PasswordSnippet : {<<>>, <<PlainLine("old hint")>>} ]

InitSubmission ==
  /\ job \in JobsSubmission
  /\ config \in Configs
  /\ pjExists \in BOOLEAN
  /\ pjChannel = (IF pjExists THEN job.RequestedChannel ELSE "")
  /\ run = [r \in Runs |-> Idle(job)]
  /\ invocations = 0

NextSubmission ==
  \E r \in Sequential :
    \/ Invoke(r)
    \/ Guard(r)
    \/ Resolve(r)
    \/ FindTarget(r)
    \/ Submit(r)

SpecSubmission == InitSubmission /\ [][NextSubmission]_vars

(* ---------------------------------------------------------------- claims *)

\* A run has returned.
Returned(r) == run[r].pc = "returned"

\* The request was already fulfilled when the run was entered.
FulfilledAtEntry(r) ==
  run[r].entry.Credentials # "" /\ run[r].entry.PasswordSnippet # <<>>

\* The run got past the guard (it is no longer at its entry).
PastGuard(r) == run[r].pc \notin {"idle", "guard"}

\* waitForClusterReachable returned an error in this run.
ReachFailed(r) == run[r].reachErr \notin {NoErr, <<"not probed">>}
ReachOk(r) == run[r].reachErr = NoErr

\* C1: a run entered with both Credentials and PasswordSnippet non-empty
\* returns nil, has made no platform call, and has left the request as it was.
C1_ReentryGuard ==
  \A r \in Runs :
    (PastGuard(r) /\ FulfilledAtEntry(r)) =>
       /\ Returned(r)
       /\ run[r].ret = NoErr
       /\ run[r].calls = {}
       /\ job = run[r].entry

C1_Witness ==
  \E r \in Runs : Returned(r) /\ FulfilledAtEntry(r) /\ run[r].ret = NoErr

\* The step that leaves the submit stage of run r.
SubmitStep(r) == run[r].pc = "submit" /\ run'[r].pc # "submit"

\* C2: after AlreadyExists the run is at the start of the await-URL stage in
\* the very state a fresh create leaves it in; after any other create error
\* it has returned that error, with no poll made and the request untouched.
C2_SubmitTolerance ==
  [][ \A r \in Runs :
        SubmitStep(r) =>
          /\ job' = job
          /\ IF run'[r].createAns \in {"Created", "AlreadyExists"}
             THEN run'[r] = [run[r] EXCEPT !.pc = "url", !.polls = 0,
                                           !.pj = run'[r].pj,
                                           !.calls = @ \cup {"Create"},
                                           !.createAns = run'[r].createAns]
             ELSE /\ run'[r].pc = "returned"
                  /\ run'[r].ret = <<"create failed">>
                  /\ run'[r].calls = {"Create"}
                  /\ run'[r].polls = 0 ]_vars

C2_Witness ==
  \E r \in Runs :
    /\ run[r].createAns = "AlreadyExists"
    /\ run[r].pc = "url"
    /\ run[r].polls = 0

\* C3: right after credential retrieval the request holds the non-empty
\* kubeconfig; once the reachability probe has failed the request holds no
\* credentials, and the run returns the 'cluster did not become reachable'
\* error only after the log fetch and the notification patch were made.
C3_RevokedWhenUnreachable ==
  \A r \in Sequential :
    /\ run[r].pc = "reach" =>
         job.Credentials # "" /\ job.Credentials = run[r].kubeconfig
    /\ ReachFailed(r) =>
         /\ run[r].pc \in {"logs", "patch", "returned"}
         /\ job.Credentials = ""
         /\ Returned(r) =>
              /\ {"GetLogs", "Patch"} \subseteq run[r].calls
              /\ run[r].ret = Wrap("cluster did not become reachable", run[r].reachErr)

C3_Witness ==
  \E r \in Sequential :
    /\ Returned(r)
    /\ run[r].reachErr = ErrWaitTimeout
    /\ run[r].kubeconfig = "kubeconfig-ok"
    /\ job.Credentials = ""

\* The run returned an error that starts with this prefix.
FailedWith(r, prefix) ==
  Returned(r) /\ run[r].ret # NoErr /\ Head(run[r].ret) = prefix

AllCalls ==
  {"Create", "GetProwJob", "GetJobPod", "GetTargetPod", "Exec", "ProbeCluster",
   "GetLogs", "Patch"}

\* C4 as stated: a run entered on an unfulfilled request returns nil exactly
\* when the reachability probe succeeded, and a nil return leaves non-empty
\* Credentials.
C4_ReturnValue_AsStated ==
  \A r \in Sequential :
    (Returned(r) /\ ~FulfilledAtEntry(r)) =>
       /\ (run[r].ret = NoErr) <=> ReachOk(r)
       /\ run[r].ret = NoErr => job.Credentials # ""

\* C4, amended: for a launch-mode request that was not fulfilled at entry the
\* run returns nil exactly when every stage through the reachability probe
\* succeeded, and then Credentials is the retrieved kubeconfig; otherwise it
\* returns the reachability error if the probe failed and an earlier error
\* if the probe was never made. For any other mode the run returns nil as
\* soon as the URL is recorded, having polled no pod and written no
\* Credentials or PasswordSnippet.
C4_ReturnValue ==
  \A r \in Sequential :
    (Returned(r) /\ ~FulfilledAtEntry(r)) =>
       IF job.Mode = "launch"
       THEN /\ (run[r].ret = NoErr) <=> ReachOk(r)
            /\ ReachOk(r) => AllCalls \subseteq run[r].calls
            /\ run[r].ret = NoErr =>
                 job.Credentials # "" /\ job.Credentials = run[r].kubeconfig
            /\ ReachFailed(r) =>
                 run[r].ret = Wrap("cluster did not become reachable", run[r].reachErr)
            /\ (run[r].ret # NoErr /\ ~ReachFailed(r)) =>
                 AllCalls \cap {"ProbeCluster", "GetLogs", "Patch"} \cap run[r].calls = {}
       ELSE /\ ~ReachOk(r) /\ ~ReachFailed(r)
            /\ run[r].calls \subseteq {"Create", "GetProwJob"}
            /\ job.Credentials = run[r].entry.Credentials
            /\ job.PasswordSnippet = run[r].entry.PasswordSnippet
            /\ run[r].ret = NoErr => job.URL # "" /\ "GetProwJob" \in run[r].calls
            /\ run[r].ret # NoErr =>
                 \/ run[r].calls = {}
                 \/ run[r].ret = <<"create failed">>
                 \/ FailedWith(r, "did not retrieve job url due to an error")

C4_Witness ==
  \E r \in Sequential :
    /\ Returned(r) /\ ~FulfilledAtEntry(r)
    /\ job.Mode = "launch"
    /\ run[r].ret = NoErr
    /\ ReachOk(r)

\* The stage a position of launchJob belongs to, in the order of the run.
Stage(pc) ==
  CASE pc \in {"idle", "guard", "resolve", "target"} -> 0
    [] pc = "submit" -> 1
    [] pc \in {"url", "mode"} -> 2
    [] pc = "visible" -> 3
    [] pc = "setup" -> 4
    [] pc \in {"creds", "store"} -> 5
    [] pc \in {"reach", "probe"} -> 6
    [] pc = "logs" -> 7
    [] pc = "patch" -> 8
    [] pc = "returned" -> 9

\* An answer for a pod that shows the setup container terminated with exit
\* code 0 in a pod that has not exited.
SetupObservedDone(pod) ==
  /\ pod.err = ""
  /\ pod.Phase \notin {"Succeeded", "Failed"}
  /\ \E i \in DOMAIN pod.ContainerStatuses :
       pod.ContainerStatuses[i] = Status("setup", TRUE, 0)

\* C5: a step of a run never moves to an earlier stage and never skips a
\* stage unless it returns; the await-URL stage is entered only after a
\* create that answered Created or AlreadyExists, a pod is polled only once
\* the URL is on the request, the setup stage is entered only on a pod seen
\* not exited, the exec only after the setup container was seen terminated
\* with exit code 0, and the probe only with non-empty retrieved output.
C5_StageOrder ==
  [][ \A r \in Runs :
        (run[r].pc \notin {"idle", "returned"} /\ run'[r] # run[r]) =>
          LET from == Stage(run[r].pc)
              to == Stage(run'[r].pc)
          IN  /\ to >= from
              /\ ~Returned(r)' => to <= from + 1
              /\ (to = 2 /\ from < 2) =>
                   run'[r].createAns \in {"Created", "AlreadyExists"}
              /\ (to \in {3, 4} /\ from < to) => job'.URL # ""
              /\ (to = 4 /\ from < 4) =>
                   run'[r].obs.err = "" /\ ~TerminalPhase(run'[r].obs)
              /\ (to = 5 /\ from < 5) => SetupObservedDone(run'[r].obs)
              /\ (to = 6 /\ from < 6) =>
                   /\ run'[r].exec.err = NoErr
                   /\ run'[r].exec.contents # ""
                   /\ job'.Credentials = run'[r].exec.contents ]_vars

C5_Witness ==
  \E r \in Runs : Returned(r) /\ run[r].calls = AllCalls

\* What a pod-polling stage puts before its error.
StagePrefix(pc) ==
  IF pc = "visible" THEN "unable to check launch status"
  ELSE "pod never became available"

\* C6: in a pod-polling stage that has seen the pod, a poll answered
\* NotFound ends the stage at once: the run returns 'pod was deleted'.
C6_PodDeleted ==
  [][ \A r \in Runs :
        ( /\ run[r].pc \in {"visible", "setup"}
          /\ run[r].seen
          /\ run'[r] # run[r]
          /\ IsNotFound(run'[r].obs) ) =>
          /\ Returned(r)'
          /\ run'[r].ret = Wrap(StagePrefix(run[r].pc), <<"pod was deleted">>) ]_vars

C6_Witness ==
  \E r \in Runs :
    /\ Returned(r)
    /\ run[r].seen
    /\ IsNotFound(run[r].obs)
    /\ run[r].polls > 1
    /\ run[r].ret = <<"pod never became available", "pod was deleted">>

C8_SetupFetchErrors_AsStated ==
  \A r \in Runs :
    /\ ( /\ FailedWith(r, "pod never became available")
         /\ run[r].obs.err \in {"NotFound", "Forbidden"} ) =>
         run[r].ret = Wrap("pod never became available", ErrWaitTimeout)
    /\ (run[r].pc = "setup" /\ run[r].polls > 0) => run[r].obs.err # "Other"

\* C8, amended: in the setup stage a NotFound or Forbidden answer is
\* not-yet-ready as long as the pod has not been seen in that stage (the stage
\* then ends only by its timeout); once the pod has been seen, either answer
\* ends the stage with 'pod was deleted'; any other failed fetch ends it at
\* once with that error.
C8_SetupFetchErrors ==
  \A r \in Runs :
    /\ ( /\ FailedWith(r, "pod never became available")
         /\ run[r].obs.err \in {"NotFound", "Forbidden"} ) =>
         run[r].ret = Wrap("pod never became available",
                           IF run[r].seen THEN <<"pod was deleted">> ELSE ErrWaitTimeout)
    /\ ( /\ FailedWith(r, "pod never became available")
         /\ run[r].obs.err = "Other" ) =>
         run[r].ret = Wrap("pod never became available", PodErr(run[r].obs))
    /\ (run[r].pc = "setup" /\ run[r].polls > 0) =>
         /\ run[r].obs.err # "Other"
         /\ run[r].obs.err \in {"NotFound", "Forbidden"} => ~run[r].seen

C8_Witness ==
  \E r \in Runs :
    /\ run[r].pc = "setup"
    /\ run[r].polls > 1
    /\ run[r].obs.err = "Forbidden"

\* The pod of the follow-up fetch is gone or has exited.
PodGone(pod) == pod.err = "NotFound" \/ pod.Phase \in {"Succeeded", "Failed"}

ErrPodGone ==
  <<"could not retrieve kubeconfig from pod",
    "pod cannot be found or has been deleted, assume cluster won't come up">>

\* C9: the credential stage is left for the next step only on non-empty
\* output of the remote read; it goes on polling after empty output and after
\* any exec failure, except 'container not found' with the pod gone or
\* exited, which ends it at once with the 'pod cannot be found' error; apart
\* from that error the stage fails only by its timeout.
C9_CredentialPolicy ==
  \A r \in Runs :
    /\ run[r].pc = "store" =>
         /\ run[r].exec.err = NoErr
         /\ run[r].exec.contents # ""
         /\ run[r].kubeconfig = run[r].exec.contents
    /\ (run[r].pc = "creds" /\ run[r].polls > 0) =>
         \/ run[r].exec.err = NoErr /\ run[r].exec.contents = ""
         \/ run[r].exec.err # NoErr /\ ~ContainerNotFound(run[r].exec.err)
         \/ ContainerNotFound(run[r].exec.err) /\ ~PodGone(run[r].obs)
    /\ FailedWith(r, "could not retrieve kubeconfig from pod") =>
         IF ContainerNotFound(run[r].exec.err) /\ PodGone(run[r].obs)
         THEN run[r].ret = ErrPodGone
         ELSE /\ run[r].ret = Wrap("could not retrieve kubeconfig from pod", ErrWaitTimeout)
              /\ run[r].exec.contents = ""

C9_Witness ==
  \E r \in Runs :
    /\ run[r].ret = ErrPodGone
    /\ run[r].polls > 1
    /\ run[r].obs.Phase = "Failed"

\* C10: a run that reached the log fetch returns nil exactly when the
\* cluster was reachable, with Credentials decided by that alone, and a
\* failed log fetch leaves PasswordSnippet empty.
C10_BestEffort ==
  \A r \in Sequential :
    (Returned(r) /\ "GetLogs" \in run[r].calls) =>
       /\ (run[r].ret = NoErr) <=> ReachOk(r)
       /\ ReachOk(r) => job.Credentials = run[r].kubeconfig
       /\ ReachFailed(r) => job.Credentials = ""
       /\ run[r].logs.err # NoErr => job.PasswordSnippet = <<>>

\* The job config gives launchJob nothing to submit for this job name: no
\* config, no template of that name, no pod spec, or no unnamed container
\* with an argument --target=<non-empty name>.
Misconfigured(cfg, jobName) ==
  \/ cfg.nil
  \/ \A p \in cfg.periodics : p.Name # jobName
  \/ \E p \in cfg.periodics :
       /\ p.Name = jobName
       /\ \/ p.PodSpec.nil
          \/ \A i \in DOMAIN p.PodSpec.Containers :
               \/ p.PodSpec.Containers[i].Name # ""
               \/ \A k \in DOMAIN p.PodSpec.Containers[i].Args :
                    \/ p.PodSpec.Containers[i].Args[k].flag # "--target="
                    \/ p.PodSpec.Containers[i].Args[k].value = ""

ConfigErrors ==
  { <<"the prow job is not valid: no prow jobs have been defined">>,
    <<"the prow job is not valid: no job with that name">>,
    <<"prow job has no pod spec, cannot find target pod name">>,
    <<"could not find argument --target=X in prow job pod spec to identify target pod name">> }

\* C11: on a misconfigured job a run that got past the guard never reaches
\* the create call: it makes no platform call, writes nothing to the request,
\* holds no target name, and returns one of the configuration errors.
C11_ConfigFatal ==
  \A r \in Runs :
    (PastGuard(r) /\ ~FulfilledAtEntry(r)
       /\ Misconfigured(config, run[r].entry.JobName)) =>
       /\ run[r].pc \in {"resolve", "target", "returned"}
       /\ run[r].calls = {}
       /\ run[r].targetPodName = ""
       /\ job = run[r].entry
       /\ Returned(r) => run[r].ret \in ConfigErrors

C11_Witness ==
  \E r \in Runs :
    /\ Returned(r)
    /\ ~config.nil
    /\ run[r].ret = <<"could not find argument --target=X in prow job pod spec to identify target pod name">>

\* C12: once two concurrent runs on the same request have both returned, a
\* run that returned nil on a request not fulfilled at its entry finds the
\* Credentials it delivered still on the request.
C12_ConcurrentSafe ==
  (\A r \in Runs : Returned(r)) =>
    \A r \in Runs :
      (run[r].ret = NoErr /\ ~FulfilledAtEntry(r)) => job.Credentials # ""

\* The await-URL stage of the run succeeded and the run has returned.
ReturnedAfterURL(r) ==
  /\ Returned(r)
  /\ "GetProwJob" \in run[r].calls
  /\ ~FailedWith(r, "did not retrieve job url due to an error")

\* C13 as stated: a run on a request of another mode than launch skips only
\* the poll of the job's own pod and still polls the target pod, reads the
\* credentials, probes, fetches the log and patches.
C13_ModeGating_AsStated ==
  \A r \in Sequential :
    (ReturnedAfterURL(r) /\ ~FulfilledAtEntry(r) /\ job.Mode # "launch") =>
       /\ "GetJobPod" \notin run[r].calls
       /\ "GetTargetPod" \in run[r].calls

\* C13, amended: the mode gates every step after await URL. On a request of
\* another mode than launch the run returns nil as soon as the URL is
\* recorded and makes none of the later calls; on a launch request a run
\* whose await-URL stage succeeded goes on to poll the job's own pod.
C13_ModeGating ==
  \A r \in Sequential :
    (PastGuard(r) /\ ~FulfilledAtEntry(r)) =>
       IF job.Mode # "launch"
       THEN /\ run[r].calls \subseteq {"Create", "GetProwJob"}
            /\ Stage(run[r].pc) \in {0, 1, 2, 9}
            /\ ReturnedAfterURL(r) => run[r].ret = NoErr /\ job.URL # ""
       ELSE ReturnedAfterURL(r) => "GetJobPod" \in run[r].calls

C13_Witness ==
  \E r \in Sequential :
    /\ ReturnedAfterURL(r)
    /\ job.Mode = "build"
    /\ run[r].ret = NoErr
    /\ run[r].calls = {"Create", "GetProwJob"}

\* The run of r sent the job resource to the platform.
Submitted(r) == "Create" \in run[r].calls

\* What the claim says a variable of the template holds once rewritten.
RewrittenValue(e, j) ==
  IF e.Name = "RELEASE_IMAGE_LATEST"
  THEN (IF j.UpgradeImage # "" THEN j.UpgradeImage ELSE j.InstallImage)
  ELSE IF e.Name = "RELEASE_IMAGE_INITIAL"
  THEN (IF j.UpgradeImage # "" THEN j.InstallImage ELSE "")
  ELSE IF e.Name = "NAMESPACE"
  THEN "ci-ln-" \o Text(namespaceSafeHash(<<j.Name>>))
  ELSE e.Value

\* C14: the pod spec a run submitted is the template's with, in every
\* container, every RELEASE_IMAGE_LATEST set to the upgrade image if given
\* and else the install image, every RELEASE_IMAGE_INITIAL set to the install
\* image if an upgrade image is given and else to "", and every NAMESPACE set
\* to the derived namespace; every other variable keeps its value, and the
\* containers, their names, arguments and the names and order of their
\* variables are the template's.
C14_EnvironmentRewriting ==
  \A r \in Sequential :
    Submitted(r) =>
      LET tmpl == JobForConfig(config, job.JobName).PodSpec
          sent == run[r].pj
      IN  /\ sent.nil = tmpl.nil
          /\ Len(sent.Containers) = Len(tmpl.Containers)
          /\ \A i \in 1..Len(tmpl.Containers) :
                LET tc == tmpl.Containers[i]
                    sc == sent.Containers[i]
                IN  /\ sc.Name = tc.Name
                    /\ sc.Args = tc.Args
                    /\ Len(sc.Env) = Len(tc.Env)
                    /\ \A k \in 1..Len(tc.Env) :
                          /\ sc.Env[k].Name = tc.Env[k].Name
                          /\ sc.Env[k].Value = RewrittenValue(tc.Env[k], job)

\* An upgrade request submitted a two-container template: the second
\* container's variables are rewritten, its fourth one included.
C14_Witness ==
  \E r \in Sequential :
    /\ Submitted(r)
    /\ job.UpgradeImage = "registry/img:next"
    /\ Len(run[r].pj.Containers) = 2
    /\ run[r].pj.Containers[1].Env[2] = EnvVar("NAMESPACE", run[r].namespace)
    /\ run[r].pj.Containers[2].Env[2] =
          EnvVar("RELEASE_IMAGE_INITIAL", "registry/img:latest")
    /\ run[r].pj.Containers[2].Env[4] =
          EnvVar("RELEASE_IMAGE_LATEST", "registry/img:next")
    /\ run[r].pj.Containers[2].Env[3] = EnvVar("JOB_NAME_SAFE", "e2e")

\* Input sequences of the hasher: one value, several values, none.
HashInputs ==
  { <<"launch-abc123">>, <<"launch-xyz789">>, <<"ci-test-1">>, <<>>, <<"">>,
    <<"launch-", "abc123">>, <<"ci-", "test-", "1">>, <<"launch-xyz", "789">> }

\* The hasher's output on every input has n symbols, all of the alphabet, and
\* the namespace of a run past the guard is 'ci-ln-' and the n-symbol hash of
\* the request name.
HasherConforms(n) ==
  /\ \A values \in HashInputs :
       LET h == namespaceSafeHash(values)
       IN  /\ Len(h) = n
           /\ \A q \in 1..Len(h) :
                 /\ \E v \in 1..32 : h[q] = oneWayNameAlphabet[v]
                 /\ h[q] # StdPadding
  /\ \A r \in Sequential :
       (PastGuard(r) /\ ~FulfilledAtEntry(r)) =>
          /\ run[r].namespace = "ci-ln-" \o Text(namespaceSafeHash(<<job.Name>>))
          /\ Len(run[r].namespace) = 6 + n

\* C15 as stated: the hash has 8 characters of the alphabet, none a padding
\* character, on every input, and the namespace is 'ci-ln-' and that hash.
C15_Hasher_AsStated == HasherConforms(8)

\* C15, amended: the hash has 7 characters (the unpadded encoding of 4 bytes
\* in 5-bit symbols), all of the 32-symbol alphabet and none a padding
\* character, on every input; input sequences writing the same bytes give the
\* same hash; the namespace is 'ci-ln-' followed by the 7-character hash of
\* the request name.
C15_Hasher ==
  /\ HasherConforms(7)
  /\ \A v, w \in HashInputs :
       Written(v) = Written(w) => namespaceSafeHash(v) = namespaceSafeHash(w)
  /\ Cardinality({oneWayNameAlphabet[v] : v \in 1..32}) = 32

\* A run on the request "launch-abc123" derived its namespace.
C15_Witness ==
  \E r \in Sequential :
    /\ PastGuard(r) /\ ~FulfilledAtEntry(r)
    /\ job.Name = "launch-abc123"
    /\ run[r].namespace = "ci-ln-p4iyd72"
    /\ namespaceSafeHash(<<"launch-", "abc123">>) = <<"p", "4", "i", "y", "d", "7", "2">>

\* The run of r ended a polling stage by its timeout.
TimedOut(r) ==
  /\ Returned(r)
  /\ Len(run[r].ret) = 2
  /\ <<run[r].ret[2]>> = ErrWaitTimeout

\* C16: every run of launchJob that was entered eventually returns, whatever
\* the platform answers; no stage calls its condition more often than its
\* timeout allows.
C16_BoundedTermination ==
  /\ [](\A r \in Sequential : run[r].polls <= MaxPolls)
  /\ \A r \in Sequential : (run[r].pc # "idle") ~> Returned(r)

\* A stage polled as long as its timeout allowed, never saw the awaited
\* condition, and the run returned the timeout.
C16_Witness ==
  \E r \in Sequential :
    /\ TimedOut(r)
    /\ run[r].polls = MaxPolls
    /\ "GetTargetPod" \in run[r].calls

\* The pod was fetched and is in a terminal phase.
ObservedExited(pod) == pod.err = "" /\ pod.Phase \in {"Succeeded", "Failed"}

\* The pod was fetched in a non-terminal phase, and no status named setup is
\* terminated with exit code 0.
ObservedNotReady(pod) ==
  /\ pod.err = ""
  /\ pod.Phase \notin {"Succeeded", "Failed"}
  /\ \A i \in DOMAIN pod.ContainerStatuses :
       \/ pod.ContainerStatuses[i].Name # "setup"
       \/ ~pod.ContainerStatuses[i].Terminated
       \/ pod.ContainerStatuses[i].ExitCode # 0

\* A poll of the await-setup-completion stage by r.
SetupPoll(r) == run[r].pc = "setup" /\ run'[r] # run[r]

\* C17: a poll of the setup stage ends it with success exactly when the fetch
\* succeeded, the phase is not terminal and the setup container terminated
\* with exit code 0; on a pod in a terminal phase the run returns 'pod has
\* already exited', whatever the setup container's state; on a pod that is
\* not terminal and whose setup container is absent, running or failed the
\* stage goes on polling, until its timeout.
C17_SetupSuccess ==
  [][ \A r \in Sequential :
        SetupPoll(r) =>
          LET pod == run'[r].obs
          IN  /\ (run'[r].pc = "creds") <=>
                   ( /\ pod.err = ""
                     /\ pod.Phase \notin {"Succeeded", "Failed"}
                     /\ \E i \in DOMAIN pod.ContainerStatuses :
                          pod.ContainerStatuses[i] = Status("setup", TRUE, 0) )
              /\ ObservedExited(pod) =>
                   /\ run'[r].pc = "returned"
                   /\ run'[r].ret = <<"pod never became available",
                                      "pod has already exited">>
              /\ ObservedNotReady(pod) =>
                   \/ run'[r].pc = "setup" /\ run'[r].polls = run[r].polls + 1
                   \/ /\ run'[r].pc = "returned"
                      /\ run'[r].ret =
                           Wrap("pod never became available", ErrWaitTimeout)
    ]_vars

\* The setup stage ended on a pod that had succeeded with its setup
\* container terminated with exit code 0.
C17_Witness ==
  \E r \in Sequential :
    /\ FailedWith(r, "pod never became available")
    /\ run[r].ret[2] = "pod has already exited"
    /\ run[r].obs.Phase = "Succeeded"
    /\ run[r].obs.ContainerStatuses = <<Status("setup", TRUE, 0)>>

\* A poll of the await-workload-visibility stage by r.
VisiblePoll(r) == run[r].pc = "visible" /\ run'[r] # run[r]

\* C18: the visibility stage is left by the first poll whose fetch succeeds,
\* for the setup stage if the phase is not terminal and else with 'pod has
\* already exited'; while the run is in it seen is false and every answer so
\* far was NotFound; it never fails with 'pod was deleted', which only the
\* setup stage produces; the setup stage starts with seen false.
C18_VisibilityStage ==
  /\ [][ \A r \in Sequential :
          (VisiblePoll(r) /\ run'[r].obs.err = "") =>
             IF run'[r].obs.Phase \in {"Succeeded", "Failed"}
             THEN /\ run'[r].pc = "returned"
                  /\ run'[r].ret = <<"unable to check launch status",
                                     "pod has already exited">>
             ELSE /\ run'[r].pc = "setup"
                  /\ run'[r].polls = 0
                  /\ ~run'[r].seen
      ]_vars
  /\ [](\A r \in Sequential :
          /\ run[r].pc = "visible" =>
                /\ ~run[r].seen
                /\ run[r].polls > 0 => run[r].obs.err = "NotFound"
          /\ (run[r].pc = "setup" /\ run[r].polls = 0) => ~run[r].seen
          /\ (Returned(r) /\ Len(run[r].ret) = 2
                /\ run[r].ret[2] = "pod was deleted") =>
                /\ Head(run[r].ret) = "pod never became available"
                /\ run[r].seen
                /\ "GetTargetPod" \in run[r].calls)

\* The visibility stage fetched the job's pod and ended; the setup stage
\* starts without having seen its pod.
C18_Witness ==
  \E r \in Sequential :
    /\ run[r].pc = "setup"
    /\ run[r].polls = 0
    /\ run[r].obs.err = ""
    /\ ~run[r].seen
    /\ "GetJobPod" \in run[r].calls

\* The run of r returned an error from a step up to credential retrieval.
EarlyAbort(r) ==
  /\ Returned(r)
  /\ run[r].ret # NoErr
  /\ Head(run[r].ret) # "cluster did not become reachable"

\* C19: a run that returned an error from a step up to and including
\* credential retrieval left Credentials and PasswordSnippet as they were at
\* entry, made neither the log fetch nor the notification-clear patch, and
\* changed no field of the request but, possibly, URL.
C19_EarlyAbort ==
  \A r \in Sequential :
    EarlyAbort(r) =>
      /\ job.Credentials = run[r].entry.Credentials
      /\ job.PasswordSnippet = run[r].entry.PasswordSnippet
      /\ "Patch" \notin run[r].calls
      /\ "GetLogs" \notin run[r].calls
      /\ "ProbeCluster" \notin run[r].calls
      /\ job = [run[r].entry EXCEPT !.URL = job.URL]

\* A run entered with old credentials recorded the URL and then failed in
\* the credential stage.
C19_Witness ==
  \E r \in Sequential :
    /\ FailedWith(r, "could not retrieve kubeconfig from pod")
    /\ run[r].entry.Credentials = "kubeconfig-old"
    /\ job.Credentials = "kubeconfig-old"
    /\ job.URL # run[r].entry.URL

\* The run of r returned nil on a launch request not fulfilled at entry.
LaunchSucceeded(r) ==
  /\ Returned(r)
  /\ run[r].ret = NoErr
  /\ run[r].entry.Mode = "launch"
  /\ ~FulfilledAtEntry(r)

\* C20 as stated: after a nil return on a launch request not fulfilled at
\* entry, Credentials and PasswordSnippet are both non-empty.
C20_Reinvocation_AsStated ==
  \A r \in Sequential :
    LaunchSucceeded(r) =>
      /\ job.Credentials # ""
      /\ job.PasswordSnippet # <<>>

\* C20, amended: after a nil return on a launch request not fulfilled at
\* entry, Credentials is the non-empty kubeconfig read and PasswordSnippet is
\* the rewritten tail of the setup log, empty when the log fetch gave no
\* text; the guard of the next invocation returns nil without a platform
\* call when both are non-empty and otherwise lets the run proceed.
C20_Reinvocation ==
  /\ [](\A r \in Sequential :
          LaunchSucceeded(r) =>
            /\ job.Credentials # ""
            /\ job.Credentials = run[r].kubeconfig
            /\ job.PasswordSnippet = reFixLines(run[r].logs.body)
            /\ (job.PasswordSnippet = <<>>) <=> (run[r].logs.body = <<>>))
  /\ [][ \A r \in Sequential :
          (run[r].pc = "guard" /\ run'[r].pc # "guard") =>
             IF job.Credentials # "" /\ job.PasswordSnippet # <<>>
             THEN /\ run'[r].pc = "returned"
                  /\ run'[r].ret = NoErr
                  /\ run'[r].calls = {}
                  /\ job' = job
             ELSE run'[r].pc = "resolve"
      ]_vars

\* The first invocation stored the credentials and found no log text; the
\* second one is past the guard and runs again.
C20_Witness ==
  \E r \in Sequential :
    /\ invocations = 2
    /\ run[r].pc = "resolve"
    /\ run[r].entry.Credentials = "kubeconfig-ok"
    /\ run[r].entry.PasswordSnippet = <<>>
    /\ run[r].entry.URL # ""

====
